---- MODULE Spec2Model ----
(***************************************************************************)
(* Ownership and callback bridging of the ul bindings (AppCore Window/App, *)
(* Ultralight View, JavaScriptCore function objects).                      *)
(*                                                                         *)
(* The native libraries are modelled by what the wrappers hand to them:    *)
(* which objects were destroyed how often, and which (function pointer,    *)
(* user_data) pair each native object holds per callback kind.  The Rust   *)
(* heap is a sequence of boxes; the address of a box is its index.         *)
(*                                                                         *)
(* Spec models callback registration and the trampolines; SpecHandle the   *)
(* wrappers and their Drop/Clone; SpecCreate the constructors; SpecLock    *)
(* the scoped locks; SpecString host strings handed to native code;        *)
(* SpecRefCount the reference-counted JavaScriptCore wrappers;             *)
(* SpecViewTrampoline the View trampolines; SpecInstances several Window,  *)
(* App and View instances side by side.                                    *)
(***************************************************************************)
EXTENDS Integers, Sequences, FiniteSets, TLC

VARIABLES
    heap,      \* boxed callbacks ever allocated; address = index
    native,    \* per native object: alive, destroy calls, registrations
    wrapper,   \* per owning wrapper: live, CallbackStorage contents
    stack,     \* trampoline invocations in progress (innermost last)
    pc,        \* position inside a wrapper method that is in progress
    proc,      \* process state: running / aborted / unwound
    lastReg,   \* per native object and kind: box of the callback registered now
    hnat,      \* handle model: native objects
    hwrap,     \* handle model: wrappers
    cwrap,     \* wrappers the constructors returned
    clast,     \* the last constructor call and its outcome
    lk,        \* per lockable object: successful locks, failed locks, unlocks
    guards,    \* scoped-lock guards alive in the current scope
    llast,     \* the last lock call or scope exit and its outcome
    nstr,      \* strings the native string entry points were called with
    sout,      \* the last host-to-native string call and its outcome
    jsobj,     \* reference-counted JavaScriptCore objects
    jsw,       \* JavaScriptCore wrappers (String, Class, ContextGroup)
    vviews,    \* native views seen by the View trampolines
    vframe,    \* the View trampoline invocation in progress
    vlast,     \* the View trampoline invocation that finished last
    inst,      \* per Window/App/View instance: storage, registration, lock
    iheap,     \* boxed callbacks of the instances
    ilast,     \* the last call on an instance and its outcome
    eworld,    \* the exception values the engine holds during from_js_exception
    estack,    \* from_js_exception calls in progress (innermost last)
    eres,      \* phase and result of the outermost from_js_exception
    slog,      \* native calls made for a Settings object, in order
    sset,      \* the Settings wrapper and the setter calls made on it
    rlog,      \* calls of the user's resize callback, in order
    rwin,      \* resize trampoline invocations made by native code, in order
    olast,     \* the last call of an accessor that may return None
    ohist,     \* number of accessor calls made
    flog,      \* the flags arguments ulCreateWindow received
    cdata,     \* ClassCallbackData boxes leaked by Class::new
    cobjs,     \* native classes and their instances
    clslast,   \* the last JSClassCreate call as the engine saw it
    ssurf,     \* the native surface: buffer size
    sguards    \* LockedPixels guards alive on the surface

cbVars == <<heap, native, wrapper, stack, pc, proc, lastReg>>
hVars == <<hnat, hwrap>>
ctorVars == <<cwrap, clast>>
lockVars == <<lk, guards, llast>>
strVars == <<nstr, sout>>
rcVars == <<jsobj, jsw>>
vtVars == <<vviews, vframe, vlast>>
instVars == <<inst, iheap, ilast>>
excVars == <<eworld, estack, eres>>
setVars == <<slog, sset>>
rszVars == <<rlog, rwin>>
optVars == <<olast, ohist>>
flagVars == <<flog>>
clsVars == <<cdata, cobjs, clslast>>
surfVars == <<ssurf, sguards>>
earlyVars == <<cbVars, hVars, ctorVars, lockVars, strVars, rcVars, vtVars, instVars>>
lateVars == <<excVars, setVars, rszVars, optVars, flagVars, clsVars, surfVars>>
auxVars == <<ctorVars, lockVars, strVars, rcVars, vtVars, instVars, lateVars>>
vars == <<cbVars, hVars, auxVars>>

\* ---- bounds ----
MaxBoxes == 3
MaxDepth == 1
MaxObjs == 3
MaxWrappers == 3

\* ---- constants of the program ----
NULL == 0
GARBAGE == -1

Resources == {"window", "app", "view", "jsfn"}

\* callback kinds a resource can register
Slots(r) ==
    CASE r = "window" -> {"close", "resize"}
      [] r = "app" -> {"update"}
      [] r = "view" -> {"change_title"}
      [] r = "jsfn" -> {"call"}

\* Window and App keep the box in a CallbackStorage field; View and the
\* JavaScriptCore function object keep nothing on the Rust side.
HasStorage(r) == r \in {"window", "app"}

\* CallbackStorage::new : data = None
CallbackStorageNew(r) == [s \in Slots(r) |-> NULL]

NoReg == [fn |-> FALSE, ud |-> NULL]
Idle == [op |-> "idle", res |-> "none", slot |-> "none", on |-> "none", ud |-> NULL]

NewBox(layout, r, s, on) ==
    [layout |-> layout, frees |-> 0, res |-> r, slot |-> s, via |-> on, replaced |-> FALSE]

\* dropping a Box: one deallocation of the box at address a
FreeBox(h, a) == IF a = NULL THEN h ELSE [h EXCEPT ![a].frees = @ + 1]

\* dropping a CallbackStorage: frees the box it holds, if any
FreeStore(h, store) ==
    [a \in DOMAIN h |->
        IF \E s \in DOMAIN store : store[s] = a
        THEN [h[a] EXCEPT !.frees = @ + 1]
        ELSE h[a]]

\* ---- initial values of the lock, string, refcount, trampoline and
\* ---- instance parts
Lockables == {"bitmap", "surface", "view"}
NoLockCall == [op |-> "none", on |-> "none", ret |-> "none", result |-> "none"]
NotPassed == [made |-> FALSE, arg |-> <<>>]
NoStringCall == [op |-> "none", entry |-> "none", input |-> <<>>, result |-> "none",
                 passed |-> NotPassed]

NoCall == [op |-> "none", ctor |-> "none", ret |-> "none", result |-> "none"]
NoFrame == [kind |-> "none", stage |-> "idle", result |-> NULL]
NoInvocation == [kind |-> "none", result |-> NULL, ret |-> NULL]
Instances == {"W1", "W2", "A1", "V1", "V2"}
InstKind(i) ==
    CASE i \in {"W1", "W2"} -> "window"
      [] i = "A1" -> "app"
      [] i \in {"V1", "V2"} -> "view"
NoInstCall == [op |-> "none", inst |-> "none", slot |-> "none", result |-> "none", ud |-> NULL]

PropNames == {"sourceURL", "line", "column", "stack"}
NoField == [some |-> FALSE, val |-> "none"]
NoWorld == [throws |-> <<>>, obj |-> FALSE, props |-> [p \in PropNames |-> "missing"]]
NoResult == [phase |-> "idle", kind |-> "none", message |-> "none",
             fields |-> [p \in PropNames |-> NoField]]
NoSettings == [state |-> "none", calls |-> <<>>, panics |-> 0]
NoAccess == [accessor |-> "none", native |-> NULL, some |-> FALSE, wrapped |-> NULL, type |-> "none"]
NoClassCreate == [outcome |-> "none", parent |-> 0, createCalled |-> FALSE,
                  releasedBeforeCreate |-> FALSE, parentRefs |-> 0]

Init ==
    /\ heap = <<>>
    /\ native = [r \in Resources |->
                   [alive |-> r # "jsfn", destroys |-> 0, reg |-> [s \in Slots(r) |-> NoReg]]]
    /\ wrapper = [r \in Resources |-> [live |-> TRUE, store |-> CallbackStorageNew(r)]]
    /\ stack = <<>>
    /\ pc = Idle
    /\ proc = "running"
    /\ lastReg = [r \in Resources |-> [s \in Slots(r) |-> NULL]]
    /\ hnat = <<>>
    /\ hwrap = <<>>
    /\ cwrap = <<>>
    /\ clast = NoCall
    /\ lk = [k \in Lockables |-> [ok |-> 0, failed |-> 0, unlocks |-> 0]]
    /\ guards = <<>>
    /\ llast = NoLockCall
    /\ nstr = <<>>
    /\ sout = NoStringCall
    /\ jsobj = <<>>
    /\ jsw = <<>>
    /\ vviews = <<[destroys |-> 0, handed |-> FALSE]>>
    /\ vframe = NoFrame
    /\ vlast = NoInvocation
    /\ inst = [i \in Instances |->
                 [alive |-> TRUE,
                  store |-> [s \in Slots(InstKind(i)) |-> NULL],
                  reg |-> [s \in Slots(InstKind(i)) |-> NoReg],
                  poisoned |-> [s \in Slots(InstKind(i)) |-> FALSE]]]
    /\ iheap = <<>>
    /\ ilast = NoInstCall
    /\ eworld = NoWorld
    /\ estack = <<>>
    /\ eres = NoResult
    /\ slog = <<>>
    /\ sset = NoSettings
    /\ rlog = <<>>
    /\ rwin = [alive |-> TRUE, destroys |-> 0, proc |-> "running", calls |-> <<>>]
    /\ olast = NoAccess
    /\ ohist = <<>>
    /\ flog = <<>>
    /\ cdata = <<>>
    /\ cobjs = <<>>
    /\ clslast = NoClassCreate
    /\ ssurf = [size |-> 4, resizes |-> 0, locks |-> 0, unlocks |-> 0]
    /\ sguards = <<>>

Top == stack[Len(stack)]

\* the code that runs at top level is the owner of the wrappers; the code
\* that runs inside a callback only has the temporary wrapper it was handed
AtTopLevel == stack = <<>> /\ pc = Idle /\ proc = "running"
InCallback == stack # <<>> /\ pc = Idle /\ proc = "running"

\* ---- CallbackStorage (app_core/window.rs, app_core/app.rs) ----

\* variant of CallbackStorage::set that leaks the value the field held
\* (as if the old box were forgotten instead of dropped)
CallbackStorageSet_LeaksOld(h, old, r, s, on) ==
    LET h1 == Append(h, NewBox("T", r, s, on))
    IN  IF old = NULL THEN h1
        ELSE [h1 EXCEPT ![old].replaced = TRUE]

\* CallbackStorage::set : `self.data = Some(Box::new(data))` allocates the new
\* box and then drops the value the field held before; the address of the new
\* box is Len(h) + 1
CallbackStorageSet(h, old, r, s, on) ==
    LET h1 == Append(h, NewBox("T", r, s, on))
    IN  IF old = NULL THEN h1
        ELSE [h1 EXCEPT ![old].frees = @ + 1, ![old].replaced = TRUE]

\* variant of CallbackStorage::clear that keeps the box allocated
CallbackStorageClear_KeepsBox(h, old) == h

\* CallbackStorage::clear : `self.data = None` drops the box held
CallbackStorageClear(h, old) == FreeBox(h, old)

\* what clear_*_callback passes to the native setter: (None, null_mut())
ClearReg == [fn |-> FALSE, ud |-> NULL]

\* variant of Window::from_raw_temp that shares the owner's storage
FromRawTemp_SharedStorage(r) == wrapper[r].store

\* Window::from_raw_temp : a Window with the raw pointer and two fresh
\* CallbackStorage values (View::from_raw has no storage at all)
FromRawTemp(r) == CallbackStorageNew(r)

\* variant in which every trampoline lets its temporary wrapper be dropped
TempDropRuns_Always(r) == TRUE

\* leaving the trampoline's scope runs Drop on the temporary Window; the View
\* trampolines std::mem::forget their temporary View; the App and
\* JavaScriptCore trampolines build no wrapper that has a Drop
TempDropRuns(r) == r = "window"

\* the pointer cast a trampoline applies to user_data / private data
CastOf(r) == IF r = "jsfn" THEN "BoxDyn" ELSE "T"

\* `&*(user_data as *const T)` : the callback state the trampoline calls into.
\* Reading a box of another layout (CallbackData<T> read as T) or a freed box
\* is right only by accident (a zero-sized T, memory not yet reused).
Deref(r, ud) ==
    IF heap[ud].frees = 0 /\ heap[ud].layout = CastOf(r)
    THEN {ud}
    ELSE {ud, GARBAGE}

\* variant in which the trampolines had an unwinding ABI ("C-unwind")
UnwindAtExternC_Propagates == "unwound"

\* a panic that reaches the frame of an `extern "C" fn` (an ABI that cannot
\* unwind) ends the process there
UnwindAtExternC == "aborted"

\* variant of Drop that releases the callback storage before the native destroy
DropOrder_FieldsFirst == <<"fields", "destroy">>

\* impl Drop for Window / App / View : the body of drop, then the fields
DropOrder == <<"destroy", "fields">>

\* ---- Window / App : set_*_callback, clear_*_callback ----

\* set_*_callback up to and including `storage.set(callback)`
SetStoreOwner(r, s) ==
    /\ AtTopLevel
    /\ HasStorage(r)
    /\ wrapper[r].live
    /\ Len(heap) < MaxBoxes
    /\ heap' = CallbackStorageSet(heap, wrapper[r].store[s], r, s, "owner")
    /\ wrapper' = [wrapper EXCEPT ![r].store[s] = Len(heap) + 1]
    /\ pc' = [op |-> "set", res |-> r, slot |-> s, on |-> "owner", ud |-> Len(heap) + 1]
    /\ UNCHANGED <<native, stack, proc, lastReg>>
    /\ UNCHANGED <<hVars, auxVars>>

\* the same method called inside a callback on the &Window it was handed
SetStoreTemp(s) ==
    /\ InCallback
    /\ HasStorage(Top.res)
    /\ s \in DOMAIN Top.temp
    /\ Len(heap) < MaxBoxes
    /\ heap' = CallbackStorageSet(heap, Top.temp[s], Top.res, s, "temp")
    /\ stack' = [stack EXCEPT ![Len(stack)].temp[s] = Len(heap) + 1]
    /\ pc' = [op |-> "set", res |-> Top.res, slot |-> s, on |-> "temp", ud |-> Len(heap) + 1]
    /\ UNCHANGED <<native, wrapper, proc, lastReg>>
    /\ UNCHANGED <<hVars, auxVars>>

\* ulWindowSetCloseCallback(self.raw, Some(wrapper::<T>), user_data); Ok(())
SetNative ==
    /\ pc.op = "set"
    /\ native' = [native EXCEPT ![pc.res].reg[pc.slot] = [fn |-> TRUE, ud |-> pc.ud]]
    /\ lastReg' = [lastReg EXCEPT ![pc.res][pc.slot] = pc.ud]
    /\ pc' = Idle
    /\ UNCHANGED <<heap, wrapper, stack, proc>>
    /\ UNCHANGED <<hVars, auxVars>>

\* clear_*_callback up to and including `storage.clear()`
ClearStoreOwner(r, s) ==
    /\ AtTopLevel
    /\ HasStorage(r)
    /\ wrapper[r].live
    /\ heap' = CallbackStorageClear(heap, wrapper[r].store[s])
    /\ wrapper' = [wrapper EXCEPT ![r].store[s] = NULL]
    /\ pc' = [op |-> "clear", res |-> r, slot |-> s, on |-> "owner", ud |-> wrapper[r].store[s]]
    /\ UNCHANGED <<native, stack, proc, lastReg>>
    /\ UNCHANGED <<hVars, auxVars>>

ClearStoreTemp(s) ==
    /\ InCallback
    /\ HasStorage(Top.res)
    /\ s \in DOMAIN Top.temp
    /\ heap' = CallbackStorageClear(heap, Top.temp[s])
    /\ stack' = [stack EXCEPT ![Len(stack)].temp[s] = NULL]
    /\ pc' = [op |-> "clear", res |-> Top.res, slot |-> s, on |-> "temp", ud |-> Top.temp[s]]
    /\ UNCHANGED <<native, wrapper, proc, lastReg>>
    /\ UNCHANGED <<hVars, auxVars>>

\* ulWindowSetCloseCallback(self.raw, None, std::ptr::null_mut()); Ok(())
ClearNative ==
    /\ pc.op = "clear"
    /\ native' = [native EXCEPT ![pc.res].reg[pc.slot] = ClearReg]
    /\ lastReg' = [lastReg EXCEPT ![pc.res][pc.slot] = NULL]
    /\ pc' = Idle
    /\ UNCHANGED <<heap, wrapper, stack, proc>>
    /\ UNCHANGED <<hVars, auxVars>>

\* ---- View::set_change_title_callback ----

\* CallbackData::new boxes CallbackData { data: Box<T> } and leaks it with
\* Box::into_raw; the address goes to ulViewSetChangeTitleCallback
ViewSetCallback(on) ==
    /\ \/ on = "owner" /\ AtTopLevel /\ wrapper["view"].live
       \/ on = "temp" /\ InCallback /\ Top.res = "view"
    /\ Len(heap) < MaxBoxes
    /\ heap' = Append(heap, NewBox("CallbackData", "view", "change_title", on))
    /\ native' = [native EXCEPT !["view"].reg["change_title"] =
                     [fn |-> TRUE, ud |-> Len(heap) + 1]]
    /\ lastReg' = [lastReg EXCEPT !["view"]["change_title"] = Len(heap) + 1]
    /\ UNCHANGED <<wrapper, stack, pc, proc>>
    /\ UNCHANGED <<hVars, auxVars>>

\* ---- Object::function_with_callback ----

\* Box::into_raw(Box::new(callback_box)); JSObjectMakeFunctionWithCallback
\* with the trampoline; JSObjectSetPrivate(raw, callback_ptr)
FunctionWithCallback ==
    /\ AtTopLevel
    /\ ~native["jsfn"].alive
    /\ native["jsfn"].destroys = 0
    /\ Len(heap) < MaxBoxes
    /\ heap' = Append(heap, NewBox("BoxDyn", "jsfn", "call", "owner"))
    /\ native' = [native EXCEPT !["jsfn"].alive = TRUE,
                                !["jsfn"].reg["call"] = [fn |-> TRUE, ud |-> Len(heap) + 1]]
    /\ lastReg' = [lastReg EXCEPT !["jsfn"]["call"] = Len(heap) + 1]
    /\ UNCHANGED <<wrapper, stack, pc, proc>>
    /\ UNCHANGED <<hVars, auxVars>>

\* ---- trampolines ----

\* the native library calls the registered function pointer with the
\* registered user_data; the trampoline recovers the callback, builds the
\* temporary wrapper and calls the user's method
NativeInvoke(r, s) ==
    /\ proc = "running"
    /\ pc = Idle
    /\ Len(stack) < MaxDepth
    /\ native[r].alive
    /\ native[r].reg[s].fn
    /\ native[r].reg[s].ud # NULL
    /\ \E self \in Deref(r, native[r].reg[s].ud) :
          stack' = Append(stack,
                      [res |-> r, slot |-> s, ud |-> native[r].reg[s].ud,
                       self |-> self, temp |-> FromRawTemp(r),
                       expected |-> lastReg[r][s]])
    /\ UNCHANGED <<heap, native, wrapper, pc, proc, lastReg>>
    /\ UNCHANGED <<hVars, auxVars>>

\* the user's method returns; the trampoline's locals go out of scope
Return ==
    /\ InCallback
    /\ stack' = SubSeq(stack, 1, Len(stack) - 1)
    /\ IF TempDropRuns(Top.res)
       THEN /\ native' = [native EXCEPT ![Top.res].alive = FALSE,
                                        ![Top.res].destroys = @ + 1]
            /\ heap' = FreeStore(heap, Top.temp)
       ELSE UNCHANGED <<native, heap>>
    /\ UNCHANGED <<wrapper, pc, proc, lastReg>>
    /\ UNCHANGED <<hVars, auxVars>>

\* the user's method panics; no trampoline has a catch_unwind
Panic ==
    /\ InCallback
    /\ proc' = UnwindAtExternC
    /\ UNCHANGED <<heap, native, wrapper, stack, pc, lastReg>>
    /\ UNCHANGED <<hVars, auxVars>>

\* ---- impl Drop for Window / App / View ----

\* "destroy": `if !self.raw.is_null() { ulDestroyX(self.raw) }`
\* "fields" : the struct's fields are dropped (the Arc<Mutex<CallbackStorage>>)
DropPart(part, r) ==
    IF part = "destroy"
    THEN /\ native' = [native EXCEPT ![r].alive = FALSE, ![r].destroys = @ + 1]
         /\ UNCHANGED <<heap, wrapper>>
    ELSE /\ heap' = FreeStore(heap, wrapper[r].store)
         /\ wrapper' = [wrapper EXCEPT ![r] = [live |-> FALSE,
                                                 store |-> CallbackStorageNew(r)]]
         /\ UNCHANGED native

DropBegin(r) ==
    /\ AtTopLevel
    /\ r \in {"window", "app", "view"}
    /\ wrapper[r].live
    /\ DropPart(DropOrder[1], r)
    /\ pc' = [op |-> "drop", res |-> r, slot |-> "none", on |-> "owner", ud |-> NULL]
    /\ UNCHANGED <<stack, proc, lastReg>>
    /\ UNCHANGED <<hVars, auxVars>>

DropEnd ==
    /\ pc.op = "drop"
    /\ DropPart(DropOrder[2], pc.res)
    /\ pc' = Idle
    /\ UNCHANGED <<stack, proc, lastReg>>
    /\ UNCHANGED <<hVars, auxVars>>

Next ==
    \/ \E r \in Resources : \E s \in Slots(r) : SetStoreOwner(r, s)
    \/ \E s \in {"close", "resize"} : SetStoreTemp(s)
    \/ SetNative
    \/ \E r \in Resources : \E s \in Slots(r) : ClearStoreOwner(r, s)
    \/ \E s \in {"close", "resize"} : ClearStoreTemp(s)
    \/ ClearNative
    \/ \E on \in {"owner", "temp"} : ViewSetCallback(on)
    \/ FunctionWithCallback
    \/ \E r \in Resources : \E s \in Slots(r) : NativeInvoke(r, s)
    \/ Return
    \/ Panic
    \/ \E r \in Resources : DropBegin(r)
    \/ DropEnd

Spec == Init /\ [][Next]_vars

TypeOK ==
    /\ Len(heap) <= MaxBoxes
    /\ Len(stack) <= MaxDepth
    /\ proc \in {"running", "aborted", "unwound"}

\* ---- handles: constructors, accessors that return wrappers, Clone, Drop ----

\* wrapper types that carry an `owned: bool` field (Renderer, Session, ul
\* String, Bitmap); Overlay, App and View have only `raw`
HasOwnedFlag(k) == k \in {"renderer", "session", "string", "bitmap"}

\* the constructing FFI calls: Overlay::new, App::new, View::new, Renderer::new
Constructible == {"overlay", "app", "view", "renderer"}

\* accessor -> kind of the wrapper it returns and the `owned` it passes:
\* Overlay::view -> View::from_raw(view); App::renderer ->
\* Renderer::from_raw(renderer, false); Renderer::default_session ->
\* Session { raw, owned: false }; View::url / View::title ->
\* String::from_raw(url, false)
AccessorOf(k) ==
    CASE k = "overlay" -> [ret |-> "view", owned |-> TRUE]
      [] k = "app" -> [ret |-> "renderer", owned |-> FALSE]
      [] k = "renderer" -> [ret |-> "session", owned |-> FALSE]
      [] k = "view" -> [ret |-> "string", owned |-> FALSE]

HasAccessor(k) == k \in {"overlay", "app", "renderer", "view"}

\* the types whose Clone is a deep copy (ul String, Bitmap)
DeepCopyKinds == {"string", "bitmap"}

\* variant of Drop that does not look at `owned`
DropDestroys_IgnoresOwned(w) == w.raw # NULL

\* impl Drop : `if !self.raw.is_null() [&& self.owned] { ulDestroyX(self.raw) }`
DropDestroys(w) ==
    /\ w.raw # NULL
    /\ HasOwnedFlag(w.kind) => w.owned

\* the native object a getter such as ulOverlayGetView returns for parent p
ChildOf(p, k) == {q \in DOMAIN hnat : hnat[q].parent = p /\ hnat[q].kind = k}

\* Overlay::new, App::new, View::new, Renderer::new (native create succeeded)
HCreate(k) ==
    /\ k \in Constructible
    /\ Len(hnat) < MaxObjs
    /\ Len(hwrap) < MaxWrappers
    /\ hnat' = Append(hnat, [kind |-> k, destroys |-> 0, parent |-> NULL])
    /\ hwrap' = Append(hwrap, [kind |-> k, raw |-> Len(hnat) + 1, owned |-> TRUE,
                               live |-> TRUE, src |-> NULL])
    /\ UNCHANGED <<cbVars, auxVars>>

\* Overlay::view, App::renderer, Renderer::default_session, View::url: the
\* native getter returns the object the parent holds (the same pointer on
\* every call) and the accessor wraps it
HAccessor(w) ==
    /\ w \in DOMAIN hwrap
    /\ hwrap[w].live
    /\ HasAccessor(hwrap[w].kind)
    /\ Len(hwrap) < MaxWrappers
    /\ LET acc == AccessorOf(hwrap[w].kind)
           have == ChildOf(hwrap[w].raw, acc.ret)
       IN  IF have # {}
           THEN /\ hwrap' = Append(hwrap, [kind |-> acc.ret, raw |-> CHOOSE q \in have : TRUE,
                                           owned |-> acc.owned, live |-> TRUE, src |-> NULL])
                /\ UNCHANGED hnat
           ELSE /\ Len(hnat) < MaxObjs
                /\ hnat' = Append(hnat, [kind |-> acc.ret, destroys |-> 0,
                                         parent |-> hwrap[w].raw])
                /\ hwrap' = Append(hwrap, [kind |-> acc.ret, raw |-> Len(hnat) + 1,
                                           owned |-> acc.owned, live |-> TRUE, src |-> NULL])
    /\ UNCHANGED <<cbVars, auxVars>>

\* String::from_raw(ptr, false) / Bitmap::from_raw(ptr, false) on an object
\* that native code owns (a view's title, a bitmap surface's bitmap)
HFromRaw(k) ==
    /\ k \in DeepCopyKinds
    /\ Len(hnat) < MaxObjs
    /\ Len(hwrap) < MaxWrappers
    /\ hnat' = Append(hnat, [kind |-> k, destroys |-> 0, parent |-> NULL])
    /\ hwrap' = Append(hwrap, [kind |-> k, raw |-> Len(hnat) + 1,
                               owned |-> FALSE, live |-> TRUE, src |-> NULL])
    /\ UNCHANGED <<cbVars, auxVars>>

\* impl Clone for String / Bitmap : Self::from_copy(self), that is
\* ulCreateStringFromCopy / ulCreateBitmapFromCopy and `owned: true`
HClone(w) ==
    /\ w \in DOMAIN hwrap
    /\ hwrap[w].live
    /\ hwrap[w].kind \in DeepCopyKinds
    /\ Len(hnat) < MaxObjs
    /\ Len(hwrap) < MaxWrappers
    /\ hnat' = Append(hnat, [kind |-> hwrap[w].kind, destroys |-> 0, parent |-> NULL])
    /\ hwrap' = Append(hwrap, [kind |-> hwrap[w].kind, raw |-> Len(hnat) + 1,
                               owned |-> TRUE, live |-> TRUE, src |-> w])
    /\ UNCHANGED <<cbVars, auxVars>>

\* a wrapper goes out of scope
HDrop(w) ==
    /\ w \in DOMAIN hwrap
    /\ hwrap[w].live
    /\ hwrap' = [hwrap EXCEPT ![w].live = FALSE]
    /\ hnat' = IF DropDestroys(hwrap[w])
               THEN [hnat EXCEPT ![hwrap[w].raw].destroys = @ + 1]
               ELSE hnat
    /\ UNCHANGED <<cbVars, auxVars>>

NextHandle ==
    \/ \E k \in Constructible : HCreate(k)
    \/ \E w \in 1..MaxWrappers : HAccessor(w)
    \/ \E k \in DeepCopyKinds : HFromRaw(k)
    \/ \E w \in 1..MaxWrappers : HClone(w)
    \/ \E w \in 1..MaxWrappers : HDrop(w)

SpecHandle == Init /\ [][NextHandle]_vars

\* C1: every native object has at most one live wrapper that will destroy it,
\* and its native destroy function has been called at most once
ClaimC1_SingleOwnerSingleDestroy ==
    \A p \in DOMAIN hnat :
        /\ hnat[p].destroys <= 1
        /\ Cardinality({w \in DOMAIN hwrap :
                          hwrap[w].live /\ hwrap[w].raw = p /\ DropDestroys(hwrap[w])}) <= 1

\* C17: dropping a non-owning ul String or Bitmap wrapper and its clones never
\* destroys the viewed native object; every clone has a native object of its
\* own, which is destroyed exactly once, when that clone is dropped
ThmC17_ClonesOfViewDestroyOnlyCopies ==
    \A w \in DOMAIN hwrap :
        hwrap[w].kind \in DeepCopyKinds =>
            /\ ~hwrap[w].owned => hnat[hwrap[w].raw].destroys = 0
            /\ hwrap[w].src # NULL =>
                  /\ hwrap[w].raw # hwrap[hwrap[w].src].raw
                  /\ \A v \in DOMAIN hwrap : v # w => hwrap[v].raw # hwrap[w].raw
                  /\ hnat[hwrap[w].raw].destroys = IF hwrap[w].live THEN 0 ELSE 1

\* a non-owning wrapper and two clones of it have all been dropped
WitC17_ViewAndTwoClonesDropped ==
    \E w, c, d \in DOMAIN hwrap :
        /\ c # d
        /\ ~hwrap[w].owned /\ hwrap[w].kind \in DeepCopyKinds
        /\ hwrap[c].src = w /\ hwrap[d].src = w
        /\ ~hwrap[w].live /\ ~hwrap[c].live /\ ~hwrap[d].live
        /\ hnat[hwrap[w].raw].destroys = 0
        /\ hnat[hwrap[c].raw].destroys = 1
        /\ hnat[hwrap[d].raw].destroys = 1

\* ---- claims about callbacks ----

StoreOn(on, r) == IF on = "owner" THEN wrapper[r].store ELSE Top.temp

\* C2: a Window close/resize trampoline never destroys the window it was
\* handed: while the owning Window has not been dropped, its native window is
\* alive
ClaimC2_TrampolineKeepsWindowAlive ==
    (wrapper["window"].live /\ pc.op # "drop") => native["window"].alive

\* C3: during Window/App set_*_callback and clear_*_callback, a non-null
\* user_data held by the native registration always addresses a box that has
\* not been freed
ClaimC3_RegisteredBoxNotFreed ==
    (pc.op \in {"set", "clear"} /\ HasStorage(pc.res)) =>
        \A s \in Slots(pc.res) :
            LET ud == native[pc.res].reg[s].ud
            IN  ud # NULL => heap[ud].frees = 0

\* C4: once callback B has replaced an earlier callback of the same kind on
\* the same Window, App or View, every trampoline invocation of that kind runs
\* on B's state
ClaimC4_LatestCallbackInvoked ==
    \A i \in 1..Len(stack) :
        LET f == stack[i]
        IN  (\E a \in 1..(f.expected - 1) : heap[a].res = f.res /\ heap[a].slot = f.slot)
                => f.self = f.expected

\* C5: once an owning Window, App or View has been dropped, every callback
\* ever registered on it has been freed exactly once
ClaimC5_AllBoxesFreedAtDrop ==
    \A r \in {"window", "app", "view"} :
        ~wrapper[r].live =>
            \A a \in DOMAIN heap : heap[a].res = r => heap[a].frees = 1

\* C6: on a Window or App, a callback replaced by a later registration has
\* been dropped exactly once, and no callback is ever dropped twice (not by a
\* later clear, a later replacement or the drop of the resource)
ThmC6_ReplacedDroppedOnce ==
    \A a \in DOMAIN heap :
        HasStorage(heap[a].res) =>
            /\ heap[a].frees <= 1
            /\ heap[a].replaced => heap[a].frees = 1

\* a replaced callback, after a later replacement and the drop of the resource
WitC6_ReplacedThenResourceDropped ==
    \E a \in DOMAIN heap :
        /\ HasStorage(heap[a].res)
        /\ heap[a].replaced
        /\ heap[a].frees = 1
        /\ ~wrapper[heap[a].res].live

\* C7: a step that registers a callback from inside an executing callback
\* leaves the storage of every executing callback unfreed and the invocation
\* in progress
ThmC7_ReentrantRegistrationKeepsExecuting ==
    [][(stack # <<>> /\ Len(heap') > Len(heap)) =>
          /\ Len(stack') = Len(stack)
          /\ \A i \in 1..Len(stack) :
                /\ stack'[i].ud = stack[i].ud
                /\ heap'[stack[i].ud].frees = 0]_vars

\* inside an executing callback, the same kind has been registered again
\* through the wrapper the trampoline handed in
WitC7_RegisteredInsideCallback ==
    /\ stack # <<>>
    /\ pc = Idle
    /\ native[Top.res].reg[Top.slot].ud > Top.ud
    /\ heap[native[Top.res].reg[Top.slot].ud].via = "temp"
    /\ heap[Top.ud].frees = 0

\* C8: in the drop of an owning Window or App a box is freed only after the
\* native destroy call has been made for that resource
ThmC8_DestroyBeforeFree ==
    [][\A a \in DOMAIN heap :
          (heap'[a].frees > heap[a].frees /\ (pc.op = "drop" \/ pc'.op = "drop")) =>
              /\ ~native[heap[a].res].alive
              /\ native[heap[a].res].destroys >= 1]_vars

\* a Window or App was dropped while its callback was still registered, and
\* the drop freed the box
WitC8_DropFreedRegisteredBox ==
    \E r \in {"window", "app"} : \E s \in Slots(r) :
        /\ ~wrapper[r].live
        /\ native[r].reg[s].ud # NULL
        /\ heap[native[r].reg[s].ud].via = "owner"
        /\ heap[native[r].reg[s].ud].frees = 1

MaxCreates == 2

Constructors ==
    {"Settings::new", "App::new", "Window::new", "Overlay::new", "Overlay::with_view",
     "View::new", "Renderer::new", "Config::new", "ViewConfig::new", "Session::new",
     "Bitmap::new", "GlobalContext::new"}

\* variant in which no constructor tests the pointer the native call returned
ChecksNull_Never(c) == FALSE

\* constructors with `if raw.is_null() { return Err(Error::CreationFailed(..)) }`;
\* the others return Self and store whatever the native call returned
ChecksNull(c) ==
    c \in {"Settings::new", "App::new", "Window::new", "Overlay::new", "Overlay::with_view"}

\* impl Drop of the constructed type: every one but GlobalContext tests
\* `!self.raw.is_null()` before the native destroy / release call
DropTestsNull(c) == c # "GlobalContext::new"

\* X::new : the native create call returns ret ("null" or "ptr")
Create(c, ret) ==
    /\ c \in Constructors
    /\ IF ret = "null" /\ ChecksNull(c)
       THEN /\ UNCHANGED cwrap
            /\ clast' = [op |-> "create", ctor |-> c, ret |-> ret,
                         result |-> "CreationFailed"]
       ELSE /\ Len(cwrap) < MaxCreates
            /\ cwrap' = Append(cwrap, [ctor |-> c, raw |-> ret, live |-> TRUE,
                                       destroys |-> 0])
            /\ clast' = [op |-> "create", ctor |-> c, ret |-> ret, result |-> "Ok"]
    /\ UNCHANGED <<lateVars, cbVars, hVars, lockVars, strVars, rcVars, vtVars, instVars>>

\* a constructed wrapper goes out of scope
CreatedDrop(w) ==
    /\ w \in DOMAIN cwrap
    /\ cwrap[w].live
    /\ cwrap' = [cwrap EXCEPT ![w].live = FALSE,
                              ![w].destroys =
                                  IF cwrap[w].raw = "null" /\ DropTestsNull(cwrap[w].ctor)
                                  THEN @ ELSE @ + 1]
    /\ clast' = [NoCall EXCEPT !.op = "drop"]
    /\ UNCHANGED <<lateVars, cbVars, hVars, lockVars, strVars, rcVars, vtVars, instVars>>

NextCreate ==
    \/ \E c \in Constructors : \E ret \in {"null", "ptr"} : Create(c, ret)
    \/ \E w \in 1..MaxCreates : CreatedDrop(w)

SpecCreate == Init /\ [][NextCreate]_vars

\* C11: when the native create call of Settings::new, App::new, Window::new,
\* Overlay::new or Overlay::with_view returns null, the constructor returns
\* CreationFailed and constructs no wrapper, so that no wrapper of these types
\* holds null and no native destroy call is made for the failed creation
ThmC11_NullCreateIsCreationFailed ==
    /\ [][(/\ clast'.op = "create"
           /\ clast'.ret = "null"
           /\ clast'.ctor \in {"Settings::new", "App::new", "Window::new",
                               "Overlay::new", "Overlay::with_view"}) =>
             /\ clast'.result = "CreationFailed"
             /\ cwrap' = cwrap]_vars
    /\ [](\A w \in DOMAIN cwrap :
             cwrap[w].ctor \in {"Settings::new", "App::new", "Window::new",
                                "Overlay::new", "Overlay::with_view"} =>
                 /\ cwrap[w].raw # "null"
                 /\ cwrap[w].destroys = IF cwrap[w].live THEN 0 ELSE 1)

\* Overlay::with_view failed on a null return while a Window was alive
WitC11_OverlayCreateReturnedNull ==
    /\ clast.op = "create"
    /\ clast.ctor = "Overlay::with_view"
    /\ clast.ret = "null"
    /\ clast.result = "CreationFailed"
    /\ \E w \in DOMAIN cwrap : cwrap[w].live /\ cwrap[w].ctor = "Window::new"

\* C12: when the native create call of View::new, Renderer::new, Config::new,
\* ViewConfig::new, Session::new, Bitmap::new or GlobalContext::new returns
\* null, the constructor yields a CreationFailed or NullReference error and
\* no wrapper of these types holds null
ClaimC12_NullCreateIsError ==
    /\ (/\ clast.op = "create"
        /\ clast.ret = "null"
        /\ clast.ctor \in {"View::new", "Renderer::new", "Config::new", "ViewConfig::new",
                           "Session::new", "Bitmap::new", "GlobalContext::new"}) =>
           clast.result \in {"CreationFailed", "NullReference"}
    /\ \A w \in DOMAIN cwrap :
           cwrap[w].ctor \in {"View::new", "Renderer::new", "Config::new", "ViewConfig::new",
                              "Session::new", "Bitmap::new", "GlobalContext::new"} =>
               cwrap[w].raw # "null"

\* ---- scoped locks: Bitmap::lock_pixels, Surface::lock_pixels,
\* ---- View::lock_js_context

MaxLocks == 3

\* variant in which no lock method tests the pointer the native call returned
LockChecksNull_Never(k) == FALSE

\* lock_pixels has `if pixels.is_null() { return Err(..) }`; lock_js_context
\* returns the guard without looking at the context pointer
LockChecksNull(k) == k \in {"bitmap", "surface"}

LockCalls == lk["bitmap"].ok + lk["bitmap"].failed + lk["surface"].ok
             + lk["surface"].failed + lk["view"].ok + lk["view"].failed

GuardsOn(g, k) == Cardinality({i \in DOMAIN g : g[i].on = k})

\* impl Drop for LockedPixels / LockedJSContext : one native unlock call
UnlockAll(g) == [k \in Lockables |-> [lk[k] EXCEPT !.unlocks = @ + GuardsOn(g, k)]]

\* x.lock_pixels() / view.lock_js_context() : the native lock call returns ret
Lock(k, ret) ==
    /\ LockCalls < MaxLocks
    /\ IF ret = "null"
       THEN /\ lk' = [lk EXCEPT ![k].failed = @ + 1]
            /\ IF LockChecksNull(k)
               THEN /\ UNCHANGED guards
                    /\ llast' = [op |-> "lock", on |-> k, ret |-> ret, result |-> "Err"]
               ELSE /\ guards' = Append(guards, [on |-> k, ptr |-> NULL])
                    /\ llast' = [op |-> "lock", on |-> k, ret |-> ret, result |-> "Ok"]
       ELSE /\ lk' = [lk EXCEPT ![k].ok = @ + 1]
            /\ guards' = Append(guards, [on |-> k, ptr |-> 1])
            /\ llast' = [op |-> "lock", on |-> k, ret |-> ret, result |-> "Ok"]
    /\ UNCHANGED <<lateVars, cbVars, hVars, ctorVars, strVars, rcVars, vtVars, instVars>>

\* drop(guard) : one guard goes away
GuardDrop(i) ==
    /\ i \in DOMAIN guards
    /\ lk' = [lk EXCEPT ![guards[i].on].unlocks = @ + 1]
    /\ guards' = [j \in 1..(Len(guards) - 1) |-> IF j < i THEN guards[j] ELSE guards[j + 1]]
    /\ llast' = [op |-> "drop", on |-> guards[i].on, ret |-> "none", result |-> "none"]
    /\ UNCHANGED <<lateVars, cbVars, hVars, ctorVars, strVars, rcVars, vtVars, instVars>>

\* the scope that holds the guards ends, at its closing brace ("normal") or
\* through `return` / `?` ("early"): every local guard is dropped
LeaveScope(path) ==
    /\ guards # <<>>
    /\ lk' = UnlockAll(guards)
    /\ guards' = <<>>
    /\ llast' = [op |-> "leave", on |-> "none", ret |-> "none", result |-> path]
    /\ UNCHANGED <<lateVars, cbVars, hVars, ctorVars, strVars, rcVars, vtVars, instVars>>

NextLock ==
    \/ \E k \in Lockables : \E ret \in {"null", "ptr"} : Lock(k, ret)
    \/ \E i \in 1..MaxLocks : GuardDrop(i)
    \/ \E path \in {"normal", "early"} : LeaveScope(path)

SpecLock == Init /\ [][NextLock]_vars

\* C13: for Bitmap and Surface lock_pixels, a lock whose native call returned
\* null gave Err and no guard; the native unlock calls made so far plus the
\* guards still alive equal the successful locks (one unlock per successful
\* lock, made by the drop of its guard, never more unlocks than locks), and
\* leaving the scope on either path leaves no guard behind
ThmC13_OneUnlockPerSuccessfulLock ==
    /\ \A k \in {"bitmap", "surface"} :
          /\ lk[k].unlocks + GuardsOn(guards, k) = lk[k].ok
          /\ lk[k].unlocks <= lk[k].ok
          /\ (llast.op = "lock" /\ llast.on = k /\ llast.ret = "null") => llast.result = "Err"
    /\ llast.op = "leave" => guards = <<>>

\* a bitmap lock failed, another succeeded, and the scope was left early
WitC13_FailedAndSuccessfulLockThenEarlyExit ==
    /\ llast.op = "leave"
    /\ llast.result = "early"
    /\ lk["bitmap"].failed >= 1
    /\ lk["bitmap"].ok >= 1
    /\ lk["bitmap"].unlocks = lk["bitmap"].ok
    /\ lk["surface"].ok >= 1

\* C14: when ulViewLockJSContext returns null, View::lock_js_context returns
\* an error and creates no guard, so no unlock call follows the failed lock
ClaimC14_NullJSContextLockFails ==
    /\ (llast.op = "lock" /\ llast.on = "view" /\ llast.ret = "null") => llast.result = "Err"
    /\ lk["view"].unlocks + GuardsOn(guards, "view") = lk["view"].ok

\* ---- host strings handed to native code ----

MaxLen == 2
MaxCalls == 2
NUL == "NUL"

RECURSIVE SeqsUpTo(_, _)
SeqsUpTo(S, n) ==
    IF n = 0 THEN {<<>>}
    ELSE LET shorter == SeqsUpTo(S, n - 1)
         IN  shorter \cup {Append(t, c) : t \in shorter, c \in S}

HostStrings == SeqsUpTo({"a", NUL}, MaxLen)

HasNul(str) == \E i \in DOMAIN str : str[i] = NUL

\* CString::new(s) : Err(NulError) when s has an interior NUL byte
CStringNew(str) == IF HasNul(str) THEN [ok |-> FALSE, val |-> <<>>]
                   ELSE [ok |-> TRUE, val |-> str]

StringEntries == {"ul::String::from_str", "Settings::set_developer_name",
                  "Window::set_title", "jsc::String::new"}

\* what each entry point does with the result of CString::new:
\* String::from_str (and the setters that call it) `.unwrap()`;
\* Window::set_title matches Err(_) to Err(Error::InvalidArgument(..));
\* javascript_core String::new `.unwrap_or_else(|_| CString::new("").unwrap())`
OnNulError(e) ==
    CASE e \in {"ul::String::from_str", "Settings::set_developer_name"} -> "panic"
      [] e = "Window::set_title" -> "InvalidArgument"
      [] e = "jsc::String::new" -> "substitute_empty"

\* the native function the entry point passes the C string to
NativeStringFn(e) ==
    CASE e \in {"ul::String::from_str", "Settings::set_developer_name"} -> "ulCreateString"
      [] e = "Window::set_title" -> "ulWindowSetTitle"
      [] e = "jsc::String::new" -> "JSStringCreateWithUTF8CString"

StringCall(e, str) ==
    /\ Len(nstr) < MaxCalls
    /\ LET c == CStringNew(str)
       IN  IF c.ok
           THEN /\ nstr' = Append(nstr, [fn |-> NativeStringFn(e), arg |-> c.val])
                /\ sout' = [op |-> "call", entry |-> e, input |-> str, result |-> "Ok",
                            passed |-> [made |-> TRUE, arg |-> c.val]]
           ELSE CASE OnNulError(e) = "panic" ->
                       /\ UNCHANGED nstr
                       /\ sout' = [op |-> "call", entry |-> e, input |-> str,
                                   result |-> "panic", passed |-> NotPassed]
                  [] OnNulError(e) = "InvalidArgument" ->
                       /\ UNCHANGED nstr
                       /\ sout' = [op |-> "call", entry |-> e, input |-> str,
                                   result |-> "InvalidArgument", passed |-> NotPassed]
                  [] OnNulError(e) = "substitute_empty" ->
                       /\ nstr' = Append(nstr, [fn |-> NativeStringFn(e), arg |-> <<>>])
                       /\ sout' = [op |-> "call", entry |-> e, input |-> str,
                                   result |-> "Ok",
                                   passed |-> [made |-> TRUE, arg |-> <<>>]]
    /\ UNCHANGED <<lateVars, cbVars, hVars, ctorVars, lockVars, rcVars, vtVars, instVars>>

NextString == \E e \in StringEntries : \E str \in HostStrings : StringCall(e, str)

SpecString == Init /\ [][NextString]_vars

\* C15: a host string with an embedded NUL byte given to a host-to-native
\* string entry point produces InvalidArgument, and no native call is made
\* with a string for it (no panic, no truncated or substituted string)
ClaimC15_EmbeddedNulIsInvalidArgument ==
    (sout.op = "call" /\ HasNul(sout.input)) =>
        /\ sout.result = "InvalidArgument"
        /\ ~sout.passed.made

\* ---- reference-counted JavaScriptCore wrappers ----

MaxJsObjs == 3
MaxJsWrappers == 3

JsKinds == {"string", "class", "group"}

\* String::new / Class::new / ContextGroup::new : the native create call
\* returns an object with one reference, which the wrapper owns
JsCreate(k) ==
    /\ Len(jsobj) < MaxJsObjs
    /\ Len(jsw) < MaxJsWrappers
    /\ jsobj' = Append(jsobj, [kind |-> k, origin |-> "created", others |-> 0,
                               owned |-> 1, released |-> 0])
    /\ jsw' = Append(jsw, [raw |-> Len(jsobj) + 1, live |-> TRUE])
    /\ UNCHANGED <<lateVars, cbVars, hVars, ctorVars, lockVars, strVars, vtVars, instVars>>

\* impl Clone : JSStringRetain / JSClassRetain / JSContextGroupRetain
JsClone(w) ==
    /\ w \in DOMAIN jsw
    /\ jsw[w].live
    /\ Len(jsw) < MaxJsWrappers
    /\ jsobj' = [jsobj EXCEPT ![jsw[w].raw].owned = @ + 1]
    /\ jsw' = Append(jsw, [raw |-> jsw[w].raw, live |-> TRUE])
    /\ UNCHANGED <<lateVars, cbVars, hVars, ctorVars, lockVars, strVars, vtVars, instVars>>

\* impl Drop : JSStringRelease / JSClassRelease / JSContextGroupRelease
JsDrop(w) ==
    /\ w \in DOMAIN jsw
    /\ jsw[w].live
    /\ jsobj' = [jsobj EXCEPT ![jsw[w].raw].released = @ + 1]
    /\ jsw' = [jsw EXCEPT ![w].live = FALSE]
    /\ UNCHANGED <<lateVars, cbVars, hVars, ctorVars, lockVars, strVars, vtVars, instVars>>

\* has_property_callback and the other property trampolines: the engine
\* passes property_name, a reference it keeps; `String::from_raw(property_name)`
\* wraps it and the wrapper is dropped when the trampoline returns
PropertyTrampoline ==
    /\ Len(jsobj) < MaxJsObjs
    /\ jsobj' = Append(jsobj, [kind |-> "string", origin |-> "trampoline_arg", others |-> 1,
                               owned |-> 0, released |-> 1])
    /\ UNCHANGED jsw
    /\ UNCHANGED <<lateVars, cbVars, hVars, ctorVars, lockVars, strVars, vtVars, instVars>>

\* Object::get_property_names : JSObjectCopyPropertyNames, then for the name
\* at each index `String::from_raw(JSPropertyNameArrayGetNameAtIndex(..))`
\* (a reference that belongs to the array), then JSPropertyNameArrayRelease;
\* the engine may or may not hold the name elsewhere
GetPropertyNames(elsewhere) ==
    /\ Len(jsobj) < MaxJsObjs
    /\ Len(jsw) < MaxJsWrappers
    /\ jsobj' = Append(jsobj, [kind |-> "string", origin |-> "name_array",
                               others |-> elsewhere, owned |-> 0, released |-> 0])
    /\ jsw' = Append(jsw, [raw |-> Len(jsobj) + 1, live |-> TRUE])
    /\ UNCHANGED <<lateVars, cbVars, hVars, ctorVars, lockVars, strVars, vtVars, instVars>>

NextRefCount ==
    \/ \E k \in JsKinds : JsCreate(k)
    \/ \E w \in 1..MaxJsWrappers : JsClone(w)
    \/ \E w \in 1..MaxJsWrappers : JsDrop(w)
    \/ PropertyTrampoline
    \/ \E elsewhere \in {0, 1} : GetPropertyNames(elsewhere)

SpecRefCount == Init /\ [][NextRefCount]_vars

\* C16: on every reference-counted JavaScriptCore object the wrappers have
\* called release at most once per reference they own (one per create/copy
\* and one per retain), and exactly once per owned reference when no wrapper
\* of the object is left; a borrowed JSStringRef is never released
ClaimC16_ReleaseOncePerOwnedReference ==
    \A o \in DOMAIN jsobj :
        /\ jsobj[o].released <= jsobj[o].owned
        /\ (\A w \in DOMAIN jsw : jsw[w].raw = o => ~jsw[w].live) =>
               jsobj[o].released = jsobj[o].owned

\* ---- View trampolines ----

MaxViews == 3

ViewTrampolines ==
    {"change_title", "change_url", "change_tooltip", "change_cursor",
     "add_console_message", "create_child_view", "create_inspector_view",
     "begin_loading", "finish_loading", "fail_loading", "window_object_ready",
     "dom_ready", "update_history"}

\* the trampolines whose user callback returns Option<View>
ReturnsView(k) == k \in {"create_child_view", "create_inspector_view"}

\* the native library raises an event on the caller view (vviews[1]); the
\* trampoline builds `View::from_raw(caller)` and calls the user's method
VtInvoke(k) ==
    /\ vframe.stage = "idle"
    /\ vframe' = [kind |-> k, stage |-> "callback", result |-> NULL]
    /\ UNCHANGED <<vviews, vlast>>
    /\ UNCHANGED <<lateVars, cbVars, hVars, ctorVars, lockVars, strVars, rcVars, instVars>>

\* the user's method returns normally; on_create_child_view and
\* on_create_inspector_view return None or Some(view they created)
VtCallbackReturns(res) ==
    /\ vframe.stage = "callback"
    /\ IF res = "some"
       THEN /\ ReturnsView(vframe.kind)
            /\ Len(vviews) < MaxViews
            /\ vviews' = Append(vviews, [destroys |-> 0, handed |-> FALSE])
            /\ vframe' = [vframe EXCEPT !.stage = "returned", !.result = Len(vviews) + 1]
       ELSE /\ UNCHANGED vviews
            /\ vframe' = [vframe EXCEPT !.stage = "returned"]
    /\ UNCHANGED vlast
    /\ UNCHANGED <<lateVars, cbVars, hVars, ctorVars, lockVars, strVars, rcVars, instVars>>

\* the rest of the trampoline: `std::mem::forget(view)`, and for a returned
\* child `let raw = child_view.raw; std::mem::forget(child_view); raw`
VtExit ==
    /\ vframe.stage = "returned"
    /\ vviews' = [v \in DOMAIN vviews |->
                    IF v = 1 /\ TempDropRuns("view")
                    THEN [vviews[v] EXCEPT !.destroys = @ + 1]
                    ELSE IF v = vframe.result
                         THEN [vviews[v] EXCEPT !.handed = TRUE]
                         ELSE vviews[v]]
    /\ vlast' = [kind |-> vframe.kind, result |-> vframe.result, ret |-> vframe.result]
    /\ vframe' = NoFrame
    /\ UNCHANGED <<lateVars, cbVars, hVars, ctorVars, lockVars, strVars, rcVars, instVars>>

\* the user's method panics: the unwind runs the drop of the local `view`
\* (ulDestroyView on the caller) or not, depending on where the build places
\* the abort, and the process ends at the trampoline's frame
VtCallbackPanics ==
    /\ vframe.stage = "callback"
    /\ \E d \in {0, 1} : vviews' = [vviews EXCEPT ![1].destroys = @ + d]
    /\ vframe' = [vframe EXCEPT !.stage = UnwindAtExternC]
    /\ UNCHANGED vlast
    /\ UNCHANGED <<lateVars, cbVars, hVars, ctorVars, lockVars, strVars, rcVars, instVars>>

NextViewTrampoline ==
    \/ \E k \in ViewTrampolines : VtInvoke(k)
    \/ \E res \in {"none", "some"} : VtCallbackReturns(res)
    \/ VtExit
    \/ VtCallbackPanics

SpecViewTrampoline == Init /\ [][NextViewTrampoline]_vars

\* C18: as long as every user callback has returned normally, no View
\* trampoline has called ulDestroyView on the caller view, and a child or
\* inspector view returned by a callback has been handed to native code (its
\* raw pointer is the trampoline's return value) without being destroyed
ThmC18_ViewTrampolineKeepsViews ==
    vframe.stage \in {"idle", "callback", "returned"} =>
        /\ vviews[1].destroys = 0
        /\ \A v \in DOMAIN vviews : vviews[v].destroys = 0
        /\ vlast.ret = vlast.result
        /\ vlast.result # NULL => vviews[vlast.result].handed

\* create_child_view returned Some(child) and a later update_history
\* invocation has finished as well
WitC18_ChildReturnedThenHistoryUpdated ==
    /\ vframe.stage = "idle"
    /\ vlast.kind = "update_history"
    /\ \E v \in DOMAIN vviews : v # 1 /\ vviews[v].handed /\ vviews[v].destroys = 0
    /\ vviews[1].destroys = 0

\* ---- several Window / App / View instances ----

MaxInstBoxes == 3

\* variant in which the native setter is called on the first instance of the
\* type (one global slot per callback kind)
NativeTarget_FirstOfKind(i) ==
    CHOOSE j \in {"W1", "A1", "V1"} : InstKind(j) = InstKind(i)

\* the native object a setter is called on: `self.raw`
NativeTarget(i) == i

\* variant in which the storage is written before the lock result is looked at
LockBeforeStore_Late == FALSE

\* set_*_callback matches on `self.x_callback.lock()` before `storage.set(..)`
LockBeforeStore == TRUE

\* set_*_callback on one instance; a poisoned Mutex makes lock() return Err
ISet(i, s) ==
    /\ inst[i].alive
    /\ s \in Slots(InstKind(i))
    /\ IF HasStorage(InstKind(i)) /\ inst[i].poisoned[s]
       THEN /\ ilast' = [op |-> "set", inst |-> i, slot |-> s,
                         result |-> "CallbackRegistrationFailed", ud |-> NULL]
            /\ IF LockBeforeStore
               THEN UNCHANGED <<inst, iheap>>
               ELSE /\ Len(iheap) < MaxInstBoxes
                    /\ iheap' = CallbackStorageSet(iheap, inst[i].store[s], i, s, "owner")
                    /\ inst' = [inst EXCEPT ![i].store[s] = Len(iheap) + 1]
       ELSE /\ Len(iheap) < MaxInstBoxes
            /\ iheap' = IF HasStorage(InstKind(i))
                        THEN CallbackStorageSet(iheap, inst[i].store[s], i, s, "owner")
                        ELSE Append(iheap, NewBox("CallbackData", i, s, "owner"))
            /\ LET stored == IF HasStorage(InstKind(i))
                             THEN [inst EXCEPT ![i].store[s] = Len(iheap) + 1]
                             ELSE inst
               IN  inst' = [stored EXCEPT ![NativeTarget(i)].reg[s] =
                                [fn |-> TRUE, ud |-> Len(iheap) + 1]]
            /\ ilast' = [op |-> "set", inst |-> i, slot |-> s, result |-> "Ok",
                         ud |-> Len(iheap) + 1]
    /\ UNCHANGED <<lateVars, cbVars, hVars, ctorVars, lockVars, strVars, rcVars, vtVars>>

\* clear_*_callback on one Window or App
IClear(i, s) ==
    /\ inst[i].alive
    /\ HasStorage(InstKind(i))
    /\ s \in Slots(InstKind(i))
    /\ IF inst[i].poisoned[s]
       THEN /\ ilast' = [op |-> "clear", inst |-> i, slot |-> s,
                         result |-> "InvalidOperation", ud |-> NULL]
            /\ UNCHANGED <<inst, iheap>>
       ELSE /\ iheap' = CallbackStorageClear(iheap, inst[i].store[s])
            /\ LET stored == [inst EXCEPT ![i].store[s] = NULL]
               IN  inst' = [stored EXCEPT ![NativeTarget(i)].reg[s] = ClearReg]
            /\ ilast' = [op |-> "clear", inst |-> i, slot |-> s, result |-> "Ok",
                         ud |-> NULL]
    /\ UNCHANGED <<lateVars, cbVars, hVars, ctorVars, lockVars, strVars, rcVars, vtVars>>

\* set_*_callback in which dropping the callback held before panics (the
\* user's Drop): the field already holds the new box, the guard is dropped
\* during the unwind, which poisons the Mutex, and the native setter is not
\* reached
ISetPanics(i, s) ==
    /\ inst[i].alive
    /\ HasStorage(InstKind(i))
    /\ s \in Slots(InstKind(i))
    /\ ~inst[i].poisoned[s]
    /\ inst[i].store[s] # NULL
    /\ Len(iheap) < MaxInstBoxes
    /\ iheap' = CallbackStorageSet(iheap, inst[i].store[s], i, s, "owner")
    /\ inst' = [inst EXCEPT ![i].store[s] = Len(iheap) + 1, ![i].poisoned[s] = TRUE]
    /\ ilast' = [op |-> "set", inst |-> i, slot |-> s, result |-> "panic", ud |-> NULL]
    /\ UNCHANGED <<lateVars, cbVars, hVars, ctorVars, lockVars, strVars, rcVars, vtVars>>

\* a native event on one instance runs the trampoline registered on it; the
\* Window trampolines drop their temporary Window afterwards
IInvoke(i, s) ==
    /\ inst[i].alive
    /\ s \in Slots(InstKind(i))
    /\ inst[i].reg[s].fn
    /\ inst' = [inst EXCEPT ![i].alive = ~TempDropRuns(InstKind(i))]
    /\ ilast' = [op |-> "invoke", inst |-> i, slot |-> s, result |-> "Ok",
                 ud |-> inst[i].reg[s].ud]
    /\ UNCHANGED iheap
    /\ UNCHANGED <<lateVars, cbVars, hVars, ctorVars, lockVars, strVars, rcVars, vtVars>>

NextInstances ==
    \/ \E i \in Instances : \E s \in Slots(InstKind(i)) : ISet(i, s)
    \/ \E i \in Instances : \E s \in Slots(InstKind(i)) : IClear(i, s)
    \/ \E i \in Instances : \E s \in Slots(InstKind(i)) : ISetPanics(i, s)
    \/ \E i \in Instances : \E s \in Slots(InstKind(i)) : IInvoke(i, s)

SpecInstances == Init /\ [][NextInstances]_vars

\* C19: a call on one Window, App or View (registering, replacing or
\* clearing a callback, or an event) leaves every other instance as it was:
\* its native registration (the callback an event on it invokes), its stored
\* callback, and every box that belongs to it
ThmC19_SlotsArePerInstance ==
    [][\A j \in Instances :
          j # ilast'.inst =>
              /\ inst'[j] = inst[j]
              /\ \A a \in DOMAIN iheap : iheap[a].res = j => iheap'[a] = iheap[a]]_vars

\* W1 replaced and then cleared its resize callback while W2 had one
\* registered; the event on W2 then ran W2's callback, whose box is unfreed
WitC19_OtherWindowReplacedAndCleared ==
    /\ ilast.op = "invoke"
    /\ ilast.inst = "W2"
    /\ ilast.slot = "resize"
    /\ iheap[ilast.ud].res = "W2"
    /\ iheap[ilast.ud].frees = 0
    /\ inst["W1"].reg["resize"] = ClearReg
    /\ \E a \in DOMAIN iheap :
          iheap[a].res = "W1" /\ iheap[a].slot = "resize" /\ iheap[a].replaced

\* C20: a Window/App set_*_callback that returns CallbackRegistrationFailed
\* has made no native setter call and has left the native registration and
\* the stored boxed callback of every instance exactly as they were
ThmC20_FailedRegistrationChangesNothing ==
    [][ilast'.result = "CallbackRegistrationFailed" =>
          /\ inst' = inst
          /\ iheap' = iheap]_vars

\* a registration failed on the poisoned lock of a slot that has a callback
\* installed in native code
WitC20_RegistrationFailedOnPoisonedLock ==
    /\ ilast.op = "set"
    /\ ilast.result = "CallbackRegistrationFailed"
    /\ InstKind(ilast.inst) \in {"window", "app"}
    /\ inst[ilast.inst].poisoned[ilast.slot]
    /\ inst[ilast.inst].reg[ilast.slot].fn

\* ---- Error::from_js_exception ----

MaxValues == 2
MaxRecursion == 3

\* the exception values of one run: throws[v] is 0 when JSValueToStringCopy
\* converts v, and otherwise the value it raises instead; obj and props
\* describe the exception handed to the outermost call
Worlds ==
    [throws : [1..MaxValues -> 0..MaxValues], obj : BOOLEAN,
     props : [PropNames -> {"present", "missing"}]]

\* exception_obj.get_property(p) followed by to_string / to_number:
\* JSObjectGetProperty gives the undefined value for a property the object
\* does not have, without an exception, and undefined converts without one
FieldsOf(w) ==
    [p \in PropNames |->
        IF w.obj
        THEN [some |-> TRUE, val |-> IF w.props[p] = "present" THEN "value" ELSE "undefined"]
        ELSE NoField]

\* Error::from_js_exception(ctx, exception) is entered
ExBegin(w, v) ==
    /\ eres.phase \in {"idle", "done"}
    /\ eworld' = w
    /\ estack' = <<[val |-> v, stage |-> "message", message |-> "none"]>>
    /\ eres' = [NoResult EXCEPT !.phase = "running"]
    /\ UNCHANGED <<earlyVars, setVars, rszVars, optVars, flagVars, clsVars, surfVars>>

\* `exception_value.to_string()` : Value::to_string calls
\* Error::from_js_exception on the exception the conversion raised
ExToString ==
    /\ eres.phase = "running"
    /\ estack[Len(estack)].stage = "message"
    /\ LET t == eworld.throws[estack[Len(estack)].val]
       IN  IF t = 0
           THEN /\ estack' = [estack EXCEPT ![Len(estack)].stage = "fields",
                                            ![Len(estack)].message = "own"]
                /\ UNCHANGED eres
           ELSE IF Len(estack) < MaxRecursion
                THEN /\ estack' = Append(estack, [val |-> t, stage |-> "message",
                                                  message |-> "none"])
                     /\ UNCHANGED eres
                ELSE /\ eres' = [eres EXCEPT !.phase = "overflow"]
                     /\ UNCHANGED estack
    /\ UNCHANGED eworld
    /\ UNCHANGED <<earlyVars, setVars, rszVars, optVars, flagVars, clsVars, surfVars>>

\* the rest of from_js_exception: the four properties, then
\* Error::JSException { .. }; the caller's `Err(_)` arm takes
\* "Unknown JavaScript exception" as its message
ExReturn ==
    /\ eres.phase = "running"
    /\ estack[Len(estack)].stage = "fields"
    /\ IF Len(estack) = 1
       THEN /\ eres' = [phase |-> "done", kind |-> "JSException",
                        message |-> estack[Len(estack)].message, fields |-> FieldsOf(eworld)]
            /\ estack' = <<>>
       ELSE /\ estack' = [SubSeq(estack, 1, Len(estack) - 1)
                             EXCEPT ![Len(estack) - 1].stage = "fields",
                                    ![Len(estack) - 1].message = "unknown"]
            /\ UNCHANGED eres
    /\ UNCHANGED eworld
    /\ UNCHANGED <<earlyVars, setVars, rszVars, optVars, flagVars, clsVars, surfVars>>

NextException ==
    \/ \E w \in Worlds : \E v \in 1..MaxValues : ExBegin(w, v)
    \/ ExToString
    \/ ExReturn

SpecException == Init /\ [][NextException]_vars

\* C21: the Error that from_js_exception returns is a JSException with the
\* exception's own message, and each of source_url, line, column and
\* stack_trace is Some only if the exception is an object that has the
\* property
ClaimC21_ExceptionFieldsFollowProperties ==
    eres.phase = "done" =>
        /\ eres.kind = "JSException"
        /\ eres.message = "own"
        /\ \A p \in PropNames :
              eres.fields[p].some => (eworld.obj /\ eworld.props[p] = "present")

\* C29: from_js_exception terminates: the recursion through Value::to_string
\* never runs out of stack and never converts a value that is already being
\* converted further up the call chain
ClaimC29_ExceptionRecursionBounded ==
    /\ eres.phase # "overflow"
    /\ \A i, j \in DOMAIN estack : i # j => estack[i].val # estack[j].val

\* ---- Settings: the native calls of one Settings value ----

MaxSetterCalls == 2

SettingNames == {<<"F", "o", "o">>, <<"a", NUL>>, <<>>}
StringSetters == {"set_developer_name", "set_app_name", "set_file_system_path"}
BoolSetters == {"set_load_shaders_from_file_system", "set_force_cpu_renderer"}

SetterNative_DeveloperNameEverywhere(setter) == "ulSettingsSetDeveloperName"

\* the native function each setter calls
SetterNative(setter) ==
    CASE setter = "set_developer_name" -> "ulSettingsSetDeveloperName"
      [] setter = "set_app_name" -> "ulSettingsSetAppName"
      [] setter = "set_file_system_path" -> "ulSettingsSetFileSystemPath"
      [] setter = "set_load_shaders_from_file_system" -> "ulSettingsSetLoadShadersFromFileSystem"
      [] setter = "set_force_cpu_renderer" -> "ulSettingsSetForceCPURenderer"

BoolArg(b) == IF b THEN <<"true">> ELSE <<"false">>

\* Settings::new : ulCreateSettings, Err(CreationFailed) on null
SettingsNew(ret) ==
    /\ sset.state = "none"
    /\ slog' = Append(slog, [fn |-> "ulCreateSettings", arg |-> <<>>])
    /\ sset' = [sset EXCEPT !.state = IF ret = NULL THEN "failed" ELSE "live"]
    /\ UNCHANGED <<earlyVars, excVars, rszVars, optVars, flagVars, clsVars, surfVars>>

\* set_developer_name / set_app_name / set_file_system_path :
\* String::from_str(name) unwraps CString::new(name), so a name with an
\* interior NUL panics before the native setter is called
SetString(setter, name) ==
    /\ sset.state = "live"
    /\ Len(sset.calls) + sset.panics < MaxSetterCalls
    /\ LET c == CStringNew(name)
       IN  IF c.ok
           THEN /\ slog' = Append(slog, [fn |-> SetterNative(setter), arg |-> c.val])
                /\ sset' = [sset EXCEPT !.calls = Append(@, [setter |-> setter, arg |-> name])]
           ELSE /\ UNCHANGED slog
                /\ sset' = [sset EXCEPT !.panics = @ + 1]
    /\ UNCHANGED <<earlyVars, excVars, rszVars, optVars, flagVars, clsVars, surfVars>>

\* set_load_shaders_from_file_system / set_force_cpu_renderer
SetBool(setter, b) ==
    /\ sset.state = "live"
    /\ Len(sset.calls) + sset.panics < MaxSetterCalls
    /\ slog' = Append(slog, [fn |-> SetterNative(setter), arg |-> BoolArg(b)])
    /\ sset' = [sset EXCEPT !.calls = Append(@, [setter |-> setter, arg |-> BoolArg(b)])]
    /\ UNCHANGED <<earlyVars, excVars, rszVars, optVars, flagVars, clsVars, surfVars>>

\* Drop for Settings : ulDestroySettings when raw is not null
SettingsDrop ==
    /\ sset.state = "live"
    /\ slog' = Append(slog, [fn |-> "ulDestroySettings", arg |-> <<>>])
    /\ sset' = [sset EXCEPT !.state = "dropped"]
    /\ UNCHANGED <<earlyVars, excVars, rszVars, optVars, flagVars, clsVars, surfVars>>

NextSettings ==
    \/ \E ret \in {NULL, 1} : SettingsNew(ret)
    \/ \E setter \in StringSetters : \E name \in SettingNames : SetString(setter, name)
    \/ \E setter \in BoolSetters : \E b \in BOOLEAN : SetBool(setter, b)
    \/ SettingsDrop

SpecSettings == Init /\ [][NextSettings]_vars

MaxWindows == 2

FlagNames == {"BORDERLESS", "TITLED", "RESIZABLE", "MAXIMIZABLE", "HIDDEN"}

FlagShift_HiddenOnBit3(f) ==
    CASE f = "BORDERLESS" -> 0
      [] f = "TITLED" -> 1
      [] f = "RESIZABLE" -> 2
      [] f = "MAXIMIZABLE" -> 3
      [] f = "HIDDEN" -> 3

\* bitflags! WindowFlags: u32 : the shift of each constant
FlagShift(f) ==
    CASE f = "BORDERLESS" -> 0
      [] f = "TITLED" -> 1
      [] f = "RESIZABLE" -> 2
      [] f = "MAXIMIZABLE" -> 3
      [] f = "HIDDEN" -> 4

\* enum ULWindowFlags of the native interface: the shift of each flag
NativeFlagShift(f) ==
    CASE f = "BORDERLESS" -> 0
      [] f = "TITLED" -> 1
      [] f = "RESIZABLE" -> 2
      [] f = "MAXIMIZABLE" -> 3
      [] f = "HIDDEN" -> 4

\* `a | b` on u32
RECURSIVE BitOr(_, _)
BitOr(a, b) ==
    IF a = 0 THEN b
    ELSE IF b = 0 THEN a
    ELSE (IF a % 2 = 1 \/ b % 2 = 1 THEN 1 ELSE 0) + 2 * BitOr(a \div 2, b \div 2)

\* the constants of S combined with `|`, then `.bits()`; the largest
\* shift is 4, far inside u32
RECURSIVE FlagsBits(_)
FlagsBits(S) ==
    IF S = {} THEN 0
    ELSE LET f == CHOOSE x \in S : TRUE
         IN  BitOr(2 ^ FlagShift(f), FlagsBits(S \ {f}))

\* Window::new(monitor, width, height, fullscreen, window_flags)
WindowNew(S, ret) ==
    /\ Len(flog) < MaxWindows
    /\ flog' = Append(flog, [requested |-> S, flags |-> FlagsBits(S),
                             result |-> IF ret = NULL THEN "CreationFailed" ELSE "Ok"])
    /\ UNCHANGED <<earlyVars, excVars, setVars, rszVars, optVars, clsVars, surfVars>>

NextFlags == \E S \in SUBSET FlagNames : \E ret \in {NULL, 1} : WindowNew(S, ret)

SpecFlags == Init /\ [][NextFlags]_vars

\* C25: the flags word that Window::new hands to ulCreateWindow has exactly
\* the native bits of the requested flags set (BORDERLESS bit 0, TITLED bit 1,
\* RESIZABLE bit 2, MAXIMIZABLE bit 3, HIDDEN bit 4) and no other bit;
\* BORDERLESS | RESIZABLE arrives as 5
ThmC25_FlagsWordIsOrOfDocumentedBits ==
    \A i \in DOMAIN flog :
        /\ \A f \in FlagNames : ((flog[i].flags \div (2 ^ NativeFlagShift(f))) % 2 = 1) <=> f \in flog[i].requested
        /\ flog[i].flags < 32
        /\ flog[i].requested = {"BORDERLESS", "RESIZABLE"} => flog[i].flags = 5
        /\ flog[i].requested = {"HIDDEN"} => flog[i].flags = 16

WitC25_BorderlessResizablePassed ==
    \E i \in DOMAIN flog :
        /\ flog[i].requested = {"BORDERLESS", "RESIZABLE"}
        /\ flog[i].flags = 5
        /\ flog[i].result = "Ok"

\* ---- accessors that return an Option ----

MaxAccesses == 2

OptionalAccessors ==
    {"Object::get_proxy_target", "Object::get_private_property",
     "Object::get_global_context", "View::surface"}

\* the wrapper type each accessor builds around a non-null pointer
WrapsAs(acc) ==
    CASE acc = "Object::get_proxy_target" -> "Object"
      [] acc = "Object::get_private_property" -> "Value"
      [] acc = "Object::get_global_context" -> "Context"
      [] acc = "View::surface" -> "Surface"

OptionOf_AlwaysSome(acc, p) ==
    [accessor |-> acc, native |-> p, some |-> TRUE, wrapped |-> p, type |-> WrapsAs(acc)]

\* `if p.is_null() { None } else { Some(T::from_raw(p)) }`
OptionOf(acc, p) ==
    IF p = NULL
    THEN [accessor |-> acc, native |-> p, some |-> FALSE, wrapped |-> NULL, type |-> "none"]
    ELSE [accessor |-> acc, native |-> p, some |-> TRUE, wrapped |-> p, type |-> WrapsAs(acc)]

\* one call of an accessor whose native function returns p
OptAccess(acc, p) ==
    /\ Len(ohist) < MaxAccesses
    /\ olast' = OptionOf(acc, p)
    /\ ohist' = Append(ohist, OptionOf(acc, p))
    /\ UNCHANGED <<earlyVars, excVars, setVars, rszVars, flagVars, clsVars, surfVars>>

NextOptional == \E acc \in OptionalAccessors : \E p \in {NULL, 1, 2} : OptAccess(acc, p)

SpecOptional == Init /\ [][NextOptional]_vars

\* C24: get_proxy_target, get_private_property, get_global_context and
\* View::surface return None exactly when the native call returned null,
\* and otherwise Some of a wrapper around the very pointer returned
ThmC24_NoneExactlyOnNull ==
    \A i \in DOMAIN ohist :
        /\ ohist[i].accessor \in OptionalAccessors
        /\ ~ohist[i].some <=> ohist[i].native = NULL
        /\ ohist[i].some => ohist[i].wrapped = ohist[i].native

WitC24_SurfaceNoneThenProxyTargetSome ==
    /\ Len(ohist) = 2
    /\ ohist[1].accessor = "View::surface" /\ ~ohist[1].some /\ ohist[1].native = NULL
    /\ ohist[2].accessor = "Object::get_proxy_target" /\ ohist[2].some
    /\ ohist[2].wrapped = 2 /\ ohist[2].type = "Object"
    /\ olast = ohist[2]

\* ---- Surface::lock_pixels and Surface::resize ----

MaxResizes == 2
MaxSurfGuards == 2

\* ulSurfaceGetSize of the bitmap surface: row_bytes * height, BGRA rows
NativeSurfaceSize(w, h) == (w * 4) * h

\* Surface::lock_pixels(&self) : Err(()) on a null pixel pointer, else a
\* LockedPixels whose size is self.size() at this moment
SurfLock(pixels) ==
    /\ ssurf.locks < MaxSurfGuards
    /\ IF pixels = NULL
       THEN /\ UNCHANGED sguards
            /\ ssurf' = [ssurf EXCEPT !.locks = @ + 1]
       ELSE /\ sguards' = Append(sguards, [pixels |-> pixels, size |-> ssurf.size])
            /\ ssurf' = [ssurf EXCEPT !.locks = @ + 1]
    /\ UNCHANGED <<earlyVars, excVars, setVars, rszVars, optVars, flagVars, clsVars>>

\* Surface::resize(&self, width, height) : ulSurfaceResize; the shared
\* borrow held by a LockedPixels does not exclude it
SurfResize(w, h) ==
    /\ ssurf.resizes < MaxResizes
    /\ ssurf' = [ssurf EXCEPT !.size = NativeSurfaceSize(w, h), !.resizes = @ + 1]
    /\ UNCHANGED sguards
    /\ UNCHANGED <<earlyVars, excVars, setVars, rszVars, optVars, flagVars, clsVars>>

\* Drop for LockedPixels : ulSurfaceUnlockPixels
SurfGuardDrop(i) ==
    /\ i \in DOMAIN sguards
    /\ sguards' = [k \in 1..(Len(sguards) - 1) |-> IF k < i THEN sguards[k] ELSE sguards[k + 1]]
    /\ ssurf' = [ssurf EXCEPT !.unlocks = @ + 1]
    /\ UNCHANGED <<earlyVars, excVars, setVars, rszVars, optVars, flagVars, clsVars>>

NextSurface ==
    \/ \E pixels \in {NULL, 1} : SurfLock(pixels)
    \/ \E w \in 0..2 : \E h \in 0..2 : SurfResize(w, h)
    \/ \E i \in 1..MaxSurfGuards : SurfGuardDrop(i)

SpecSurface == Init /\ [][NextSurface]_vars

\* C30: while a LockedPixels guard of a Surface is alive, the length of its
\* slice is the surface's current native buffer size
ClaimC30_GuardLengthIsCurrentSize ==
    \A i \in DOMAIN sguards : sguards[i].size = ssurf.size

\* ---- Class::new, class reference counts and finalize_callback ----

MaxClasses == 2
MaxClassObjs == 1

\* JSClassRelease(i) : the count drops; at zero the class is freed and lets
\* go of its parent.  A release of a class that is already freed is left
\* without effect here.
RECURSIVE ClassRelease(_, _)
ClassRelease(cs, i) ==
    IF i = 0 THEN cs
    ELSE IF cs[i].refs = 0 THEN cs
    ELSE LET cs1 == [cs EXCEPT ![i].refs = @ - 1]
         IN  IF cs1[i].refs = 0 THEN ClassRelease(cs1, cs1[i].parent) ELSE cs1

\* the number of classes on the chain of c whose definition registered
\* finalize_callback; the engine calls it once for each of them
RECURSIVE FinalizeRuns(_, _)
FinalizeRuns(cs, c) ==
    IF c = 0 THEN 0
    ELSE (IF cs[c].finalize THEN 1 ELSE 0) + FinalizeRuns(cs, cs[c].parent)

\* the caller builds definition.parent_class : None, Some(parent) giving its
\* own Class away, or Some(parent.clone()) after a JSClassRetain
PassParent(cs, par, mode) ==
    CASE mode = "none" -> cs
      [] mode = "move" -> [cs EXCEPT ![par].held = @ - 1]
      [] mode = "clone" -> [cs EXCEPT ![par].refs = @ + 1]

\* Class::new(definition).  `definition.parent_class.map_or(null, |c| c.raw)`
\* takes the parent Class by value and drops it when the closure returns,
\* ahead of JSClassCreate; on the class-name error the definition is dropped
\* at the return instead.  JSClassCreate retains a live parent.  The
\* callback data is dropped on the two error paths and leaked by
\* Box::into_raw on success, its pointer kept nowhere.
ClassNew(par, mode, fin, nameOk, ret) ==
    /\ Len(cdata) < MaxClasses
    /\ (mode = "none") <=> (par = 0)
    /\ par # 0 => (par \in DOMAIN cdata /\ cdata[par].held >= 1)
    /\ LET cs1 == PassParent(cdata, par, mode)
           cs2 == ClassRelease(cs1, par)
           atCreate == IF par = 0 THEN 0 ELSE cs2[par].refs
       IN  IF ~nameOk
           THEN /\ cdata' = cs2
                /\ clslast' = [outcome |-> "InvalidParameter", parent |-> par,
                               createCalled |-> FALSE, releasedBeforeCreate |-> FALSE,
                               parentRefs |-> atCreate]
           ELSE IF ret = NULL
           THEN /\ cdata' = cs2
                /\ clslast' = [outcome |-> "JSError", parent |-> par,
                               createCalled |-> TRUE, releasedBeforeCreate |-> par # 0,
                               parentRefs |-> atCreate]
           ELSE /\ cdata' = Append(
                        IF par # 0 /\ atCreate > 0
                        THEN [cs2 EXCEPT ![par].refs = @ + 1] ELSE cs2,
                        [refs |-> 1, held |-> 1, data |-> "leaked", frees |-> 0,
                         finalize |-> fin, parent |-> par])
                /\ clslast' = [outcome |-> "Ok", parent |-> par,
                               createCalled |-> TRUE, releasedBeforeCreate |-> par # 0,
                               parentRefs |-> atCreate]
    /\ UNCHANGED cobjs
    /\ UNCHANGED <<earlyVars, excVars, setVars, rszVars, optVars, flagVars, surfVars>>

\* Clone for Class : JSClassRetain
ClassClone(c) ==
    /\ c \in DOMAIN cdata
    /\ cdata[c].held >= 1
    /\ cdata[c].held < MaxClasses
    /\ cdata' = [cdata EXCEPT ![c].held = @ + 1, ![c].refs = @ + 1]
    /\ UNCHANGED <<cobjs, clslast>>
    /\ UNCHANGED <<earlyVars, excVars, setVars, rszVars, optVars, flagVars, surfVars>>

\* Drop for Class : JSClassRelease
ClassDrop(c) ==
    /\ c \in DOMAIN cdata
    /\ cdata[c].held >= 1
    /\ cdata' = ClassRelease([cdata EXCEPT ![c].held = @ - 1], c)
    /\ UNCHANGED <<cobjs, clslast>>
    /\ UNCHANGED <<earlyVars, excVars, setVars, rszVars, optVars, flagVars, surfVars>>

\* Object::with_class(context, &class, private_data) : JSObjectMake; the
\* object's private pointer is the caller's private_data or null, and the
\* object keeps its class alive
ObjWithClass(c, priv) ==
    /\ Len(cobjs) < MaxClassObjs
    /\ c \in DOMAIN cdata
    /\ cdata[c].held >= 1
    /\ cobjs' = Append(cobjs, [class |-> c, private |-> priv, state |-> "live",
                               callbackRuns |-> 0, privateFrees |-> 0])
    /\ cdata' = [cdata EXCEPT ![c].refs = @ + 1]
    /\ UNCHANGED clslast
    /\ UNCHANGED <<earlyVars, excVars, setVars, rszVars, optVars, flagVars, surfVars>>

\* the collector finalizes object o : finalize_callback reads
\* JSObjectGetPrivate(object), and for a non-null pointer calls the user's
\* finalize and hands that pointer to Box::from_raw
ObjFinalize(o) ==
    /\ o \in DOMAIN cobjs
    /\ cobjs[o].state = "live"
    /\ LET runs == IF cobjs[o].private = NULL THEN 0
                   ELSE FinalizeRuns(cdata, cobjs[o].class)
       IN  cobjs' = [cobjs EXCEPT ![o].state = "finalized",
                                  ![o].callbackRuns = runs,
                                  ![o].privateFrees = runs]
    /\ cdata' = ClassRelease(cdata, cobjs[o].class)
    /\ UNCHANGED clslast
    /\ UNCHANGED <<earlyVars, excVars, setVars, rszVars, optVars, flagVars, surfVars>>

NextClass ==
    \/ \E par \in 0..MaxClasses : \E mode \in {"none", "move", "clone"} :
         \E fin \in BOOLEAN : \E nameOk \in BOOLEAN : \E ret \in {NULL, 1} :
            ClassNew(par, mode, fin, nameOk, ret)
    \/ \E c \in 1..MaxClasses : ClassClone(c)
    \/ \E c \in 1..MaxClasses : ClassDrop(c)
    \/ \E c \in 1..MaxClasses : \E priv \in {NULL, 1} : ObjWithClass(c, priv)
    \/ \E o \in 1..MaxClassObjs : ObjFinalize(o)

SpecClass == Init /\ [][NextClass]_vars

\* C27: the callback data that Class::new leaks with Box::into_raw is freed
\* by the finalize callback, exactly once: never twice, and once an instance
\* of the class has gone through finalize_callback the data is freed
ClaimC27_CallbackDataFreedInFinalize ==
    /\ \A c \in DOMAIN cdata : cdata[c].frees <= 1
    /\ \A o \in DOMAIN cobjs :
          (cobjs[o].state = "finalized" /\ cobjs[o].callbackRuns > 0)
              => (cdata[cobjs[o].class].frees = 1 /\ cdata[cobjs[o].class].data = "freed")

\* C28: when Class::new is given a parent class, it releases the parent
\* only after JSClassCreate, and the parent's reference count is at least
\* one when JSClassCreate is called
ClaimC28_ParentAliveAtClassCreate ==
    (clslast.createCalled /\ clslast.parent # 0) =>
        /\ ~clslast.releasedBeforeCreate
        /\ clslast.parentRefs >= 1

\* ---- registration from inside a Window trampoline ----

\* C26: a callback registered from inside a Window trampoline, through the
\* &Window argument, sits in storage that is still live after the trampoline
\* has returned: once no trampoline is running, the user_data that the
\* native window holds for such a registration addresses a box that has not
\* been freed
ClaimC26_TempRegistrationOutlivesTrampoline ==
    (stack = <<>> /\ pc = Idle) =>
        \A s \in Slots("window") :
            LET ud == native["window"].reg[s].ud
            IN  (ud # NULL /\ heap[ud].via = "temp") => heap[ud].frees = 0

\* ---- resize_callback_wrapper: the arguments it forwards ----

MaxInvocations == 4

OnResizeArgs_Swapped(width, height) == [width |-> height, height |-> width]

\* `callback.on_resize(&window, width, height)`
OnResizeArgs(width, height) == [width |-> width, height |-> height]

\* one native call of resize_callback_wrapper(user_data, window_ptr, width,
\* height); the user's on_resize returns or panics, and a panic cannot leave
\* an extern "C" function.  When on_resize returns the temporary Window goes
\* out of scope : ulDestroyWindow(window_ptr); on a window that is already
\* destroyed that native call may go unnoticed or end the process.
ResizeInvoke(ud, win, dims, outcome, crash) ==
    /\ rwin.proc = "running"
    /\ Len(rlog) < MaxInvocations
    /\ rlog' = Append(rlog, [user_data |-> ud, window |-> win,
                             width |-> dims[1], height |-> dims[2]])
    /\ IF ud # NULL /\ win # NULL
       THEN LET called == [rwin EXCEPT !.calls = Append(@, OnResizeArgs(dims[1], dims[2]))]
            IN  IF outcome = "panics"
                THEN rwin' = [called EXCEPT !.proc = "aborted"]
                ELSE rwin' = [called EXCEPT
                                 !.alive = FALSE,
                                 !.destroys = @ + 1,
                                 !.proc = IF ~rwin.alive /\ crash THEN "crashed" ELSE @]
       ELSE /\ outcome = "returns"
            /\ ~crash
            /\ UNCHANGED rwin
    /\ UNCHANGED <<earlyVars, excVars, setVars, optVars, flagVars, clsVars, surfVars>>

NextResize ==
    \E ud \in {NULL, 1} : \E win \in {NULL, 1} : \E dims \in {<<100, 200>>, <<150, 250>>, <<0, 0>>} :
        \E outcome \in {"returns", "panics"} : \E crash \in BOOLEAN :
            ResizeInvoke(ud, win, dims, outcome, crash)

SpecResize == Init /\ [][NextResize]_vars

\* the invocations that carried a user_data and a window, as (width, height)
RECURSIVE ExpectedCalls(_)
ExpectedCalls(log) ==
    IF log = <<>> THEN <<>>
    ELSE LET n == Len(log)
             before == ExpectedCalls(SubSeq(log, 1, n - 1))
         IN  IF log[n].user_data # NULL /\ log[n].window # NULL
             THEN Append(before, [width |-> log[n].width, height |-> log[n].height])
             ELSE before

\* C23: the resize trampoline calls the registered callback exactly once for
\* each native invocation that carries a non-null user_data and a non-null
\* window, with the width and height of that invocation and in the order of
\* the invocations; an invocation with a null user_data or a null window
\* calls nothing
ThmC23_ResizeForwardedOncePerInvocation ==
    rwin.calls = ExpectedCalls(rlog)

WitC23_ThreeResizesForwardedInOrder ==
    /\ Len(rlog) = 4
    /\ rlog[2].user_data = NULL
    /\ rwin.calls = <<[width |-> 100, height |-> 200],
                      [width |-> 150, height |-> 250],
                      [width |-> 0, height |-> 0]>>

====
